---------------------------- MODULE Spec2Model ----------------------------
(***************************************************************************)
(* Verification model of the pandemic package: the location registry       *)
(* (Cities), the city deck (CityDeck, the "Draw-Event Deck"), the          *)
(* infection deck (InfectionDeck, the "Striated Deck") and the game        *)
(* session (GameState).                                                    *)
(*                                                                         *)
(* City names are modelled as naturals: 1..NumCities are the catalog, 0 is *)
(* the empty name "" (the Name of the zero value City{} carried by every   *)
(* epidemic card) and NumCities+1 is a name that is in no catalog.         *)
(* float64 probabilities are modelled as exact rationals <<num, den>> with *)
(* den > 0.                                                                *)
(*                                                                         *)
(* The InfectionDeck type is used by game_state.go but its source file is  *)
(* not part of the sources at hand; its operations are modelled from       *)
(* section 4.3 of the specification.                                       *)
(***************************************************************************)
EXTENDS Integers, Sequences, FiniteSets, TLC

\* ------------------------------------------------------------------ bounds
NumCities == 2

\* the numbers of city cards of the decks probabilityOfEpidemic is applied to
PhaseCityCounts == {3, 10, 90}
\* the largest number of epidemic cards of those decks
MaxPhaseEpidemics == 6
\* the largest number of city cards drawn from those decks
MaxPhaseDrawn == 12
\* the longest slice of names given to SortByInfectionLevel
MaxSortLen == 3

\* --------------------------------------------------------------- constants
EpidemicsPerGame == 5
InitialInfectionRate == 2

VARIABLES
    NumInfections,   \* City.NumInfections of every city of the registry
    Quarantined,     \* City.Quarantined of every city of the registry
    cityDeckAll,     \* CityDeck.All
    cityDeckDrawn,   \* CityDeck.Drawn
    striations,      \* InfectionDeck.Striations, index 1 first
    infectionDrawn,  \* InfectionDeck.Drawn, most recent first
    InfectionRate,   \* GameState.InfectionRate
    prob,            \* the value probabilityOfEpidemic returned, once it was called
    queried,         \* the query of the session called last, NoQuery before the first
    sortCall         \* the slice given to SortByInfectionLevel and what it returned

vars == <<NumInfections, Quarantined, cityDeckAll, cityDeckDrawn, striations,
          infectionDrawn, InfectionRate, prob, queried, sortCall>>

\* the part of the session state that the operations assign (CityDeck.All and
\* GameState.InfectionRate are assigned by NewGame only)
Current ==
    [NumInfections |-> NumInfections, Quarantined |-> Quarantined,
     cityDeckDrawn |-> cityDeckDrawn, striations |-> striations,
     infectionDrawn |-> infectionDrawn]

\* ------------------------------------------------------------------- names
EmptyName == 0
Cities == 1..NumCities
UnknownName == NumCities + 1
Names == 0..(NumCities + 1)
\* the names the session's operations are called with: the catalog and a name
\* outside it
SessionNames == Cities \cup {UnknownName}

OK == "ok"
NotFound == "NotFound"
DuplicateDraw == "DuplicateDraw"
Exhausted == "Exhausted"
AlreadySet == "AlreadySet"
NotSet == "NotSet"

\* ------------------------------------------------------------- sequences
RECURSIVE SeqToSet(_)
SeqToSet(s) == IF s = <<>> THEN {} ELSE {Head(s)} \cup SeqToSet(Tail(s))

RECURSIVE SeqWithout(_, _)
SeqWithout(s, x) ==
    IF s = <<>> THEN <<>>
    ELSE IF Head(s) = x THEN SeqWithout(Tail(s), x)
    ELSE <<Head(s)>> \o SeqWithout(Tail(s), x)

RECURSIVE CountEpidemics(_)
CountEpidemics(cards) ==
    IF cards = <<>> THEN 0
    ELSE (IF Head(cards).IsEpidemic THEN 1 ELSE 0) + CountEpidemics(Tail(cards))

\* ------------------------------------------------------------- rationals
Zero == <<0, 1>>
One == <<1, 1>>
RFrac(n, d) == <<n, d>>
RMul(a, b) == <<a[1] * b[1], a[2] * b[2]>>
RAdd(a, b) == <<a[1] * b[2] + b[1] * a[2], a[2] * b[2]>>
RSub(a, b) == <<a[1] * b[2] - b[1] * a[2], a[2] * b[2]>>
REq(a, b) == a[1] * b[2] = b[1] * a[2]
RLe(a, b) == a[1] * b[2] <= b[1] * a[2]
RIsZero(a) == a[1] = 0
\* the value of prob before probabilityOfEpidemic was called
NoValue == <<0, 0>>

\* no query of the session has been called yet
NoQuery == "none"

\* SortByInfectionLevel has not been called yet
NoSort == [names |-> <<>>, sorted |-> <<>>, done |-> FALSE]

\* ---------------------------------------------------------------- Cities
\* Cities.GetCity: the city of that name, or an error
GetCity(cn) == IF cn \in Cities THEN OK ELSE NotFound

\* CityNames with a loop that stops one city short
CityNames_short == [i \in 1..(NumCities - 1) |-> i]

\* Cities.CityNames: the names in catalog order
CityNames == [i \in 1..NumCities |-> i]

CityCard(cn) == [Name |-> cn, IsEpidemic |-> FALSE]
EpidemicCard == [Name |-> EmptyName, IsEpidemic |-> TRUE]

\* Cities.CityCards over a catalog of n cities
CityCardsOf(n, epidemicCount) ==
    [i \in 1..n |-> CityCard(i)] \o [i \in 1..epidemicCount |-> EpidemicCard]

CityCards(epidemicCount) == CityCardsOf(NumCities, epidemicCount)

\* byInfectionRate.Swap
Swap(names, i, j) == [names EXCEPT ![i] = names[j], ![j] = names[i]]

\* Less without the comparison of the names
Less_byLevelOnly(names, i, j) ==
    NumInfections[names[i]] > NumInfections[names[j]]

\* byInfectionRate.Less: more infections first, then the smaller name; the
\* names are numbered in the order strings.Compare gives them
Less(names, i, j) ==
    IF NumInfections[names[i]] > NumInfections[names[j]] THEN TRUE
    ELSE IF NumInfections[names[i]] < NumInfections[names[j]] THEN FALSE
    ELSE names[i] < names[j]

\* sort.Sort on a slice this short is an insertion sort over Less and Swap:
\* the inner loop moves the element at j to the left while it is Less than
\* its left neighbour
RECURSIVE InsertLeft(_, _)
InsertLeft(names, j) ==
    IF j > 1 /\ Less(names, j, j - 1)
    THEN InsertLeft(Swap(names, j, j - 1), j - 1)
    ELSE names

\* the outer loop of the insertion sort, from index i on
RECURSIVE InsertionSort(_, _)
InsertionSort(names, i) ==
    IF i > Len(names) THEN names
    ELSE InsertionSort(InsertLeft(names, i), i + 1)

\* Cities.SortByInfectionLevel
SortByInfectionLevel(names) == InsertionSort(names, 2)

\* City.Infect without the test for level 3
City_Infect_uncapped(n) == [level |-> n + 1, overflow |-> FALSE]

\* City.Infect: the new level and the returned overflow flag
City_Infect(n) ==
    IF n = 3 THEN [level |-> n, overflow |-> TRUE]
    ELSE [level |-> n + 1, overflow |-> FALSE]

\* City.Epidemic
City_Epidemic(n) == 3

\* -------------------------------------------------------------- CityDeck
Total(all) == Len(all)
NumEpidemics(all) == CountEpidemics(all)
cardsPerEpidemic(all) == Total(all) \div NumEpidemics(all)
EpidemicsDrawn(drawn) == CountEpidemics(drawn)

\* CityDeck.Draw: the error and the new drawn list
CityDeck_Draw(all, drawn, cn) ==
    IF \E i \in 1..Len(drawn) : drawn[i].Name = cn
    THEN [err |-> DuplicateDraw, drawn |-> drawn]
    ELSE IF \E i \in 1..Len(all) : all[i].Name = cn
    THEN LET first == CHOOSE i \in 1..Len(all) :
                          /\ all[i].Name = cn
                          /\ \A j \in 1..(i - 1) : all[j].Name # cn
         IN [err |-> OK, drawn |-> Append(drawn, all[first])]
    ELSE [err |-> NotFound, drawn |-> drawn]

\* DrawEpidemic with > for >=
CityDeck_DrawEpidemic_offByOne(all, drawn) ==
    IF EpidemicsDrawn(drawn) > NumEpidemics(all)
    THEN [err |-> Exhausted, drawn |-> drawn]
    ELSE [err |-> OK, drawn |-> Append(drawn, EpidemicCard)]

\* CityDeck.DrawEpidemic: the error and the new drawn list
CityDeck_DrawEpidemic(all, drawn) ==
    IF EpidemicsDrawn(drawn) >= NumEpidemics(all)
    THEN [err |-> Exhausted, drawn |-> drawn]
    ELSE [err |-> OK, drawn |-> Append(drawn, EpidemicCard)]

\* probabilityOfEpidemic with the phase rounded to nearest instead of floored
probabilityOfEpidemic_rounded(all, drawn) ==
    LET cpe == cardsPerEpidemic(all)
        currentPhase == (2 * Len(drawn) + cpe) \div (2 * cpe)
    IN IF currentPhase = EpidemicsDrawn(drawn)
       THEN RFrac(2, cpe - (Len(drawn) % cpe))
       ELSE Zero

\* CityDeck.probabilityOfEpidemic
probabilityOfEpidemic(all, drawn) ==
    LET cpe == cardsPerEpidemic(all)
        currentPhase == Len(drawn) \div cpe
    IN IF currentPhase = EpidemicsDrawn(drawn)
       THEN RFrac(2, cpe - (Len(drawn) % cpe))
       ELSE Zero

\* --------------------------------------------------------- InfectionDeck
NewInfectionDeck(names) ==
    [striations |-> << SeqToSet(names) >>, drawn |-> <<>>]

InStriations(strs, cn) == \E i \in 1..Len(strs) : cn \in strs[i]

\* InfectionDeck.Draw
InfectionDeck_Draw(strs, drawn, cn) ==
    IF cn \in SeqToSet(drawn)
    THEN [err |-> DuplicateDraw, striations |-> strs, drawn |-> drawn]
    ELSE IF ~InStriations(strs, cn)
    THEN [err |-> NotFound, striations |-> strs, drawn |-> drawn]
    ELSE [err |-> OK,
          striations |-> [i \in 1..Len(strs) |-> strs[i] \ {cn}],
          drawn |-> <<cn>> \o drawn]

\* InfectionDeck.PullFromBottom: the named entry is pulled out of its place in
\* the drawn pile; it stays one of the drawn entries (the most recent one), so
\* that ShuffleDrawn restacks it with the rest of the pile
InfectionDeck_PullFromBottom(drawn, cn) ==
    IF cn \notin SeqToSet(drawn)
    THEN [err |-> NotFound, drawn |-> drawn]
    ELSE [err |-> OK, drawn |-> <<cn>> \o SeqWithout(drawn, cn)]

\* InfectionDeck.ShuffleDrawn
InfectionDeck_ShuffleDrawn(strs, drawn) ==
    [striations |-> << SeqToSet(drawn) >> \o strs, drawn |-> <<>>]

\* InfectionDeck.BottomStriation: the first non-empty striation
BottomStriation(strs) ==
    IF \E i \in 1..Len(strs) : strs[i] # {}
    THEN strs[CHOOSE i \in 1..Len(strs) :
                  /\ strs[i] # {}
                  /\ \A j \in 1..(i - 1) : strs[j] = {}]
    ELSE {}

\* InfectionDeck.ProbabilityOfDrawing
ProbabilityOfDrawing(strs, drawn, cn, rate) ==
    IF cn \in SeqToSet(drawn) THEN RFrac(rate, 1 + Len(drawn))
    ELSE IF cn \in BottomStriation(strs)
    THEN RFrac(1, Cardinality(BottomStriation(strs)))
    ELSE Zero

\* ------------------------------------------------------------- GameState
\* ProbabilityOfCity without the early return for a quarantined city
ProbabilityOfCity_noQuarantine(cn) ==
    IF GetCity(cn) # OK THEN Zero
    ELSE LET pEpi == probabilityOfEpidemic(cityDeckAll, cityDeckDrawn)
             bottom == BottomStriation(striations)
             pEpiDraw == IF cn \in bottom THEN RFrac(1, Cardinality(bottom))
                         ELSE IF cn \in SeqToSet(infectionDrawn)
                         THEN RFrac(InfectionRate, 1 + Len(infectionDrawn))
                         ELSE Zero
             pNoEpiDraw == ProbabilityOfDrawing(striations, infectionDrawn, cn,
                                                InfectionRate)
         IN RAdd(RMul(pEpi, pEpiDraw), RMul(RSub(One, pEpi), pNoEpiDraw))

\* GameState.ProbabilityOfCity in the current state
ProbabilityOfCity(cn) ==
    IF GetCity(cn) # OK THEN Zero
    ELSE IF Quarantined[cn] THEN Zero
    ELSE LET pEpi == probabilityOfEpidemic(cityDeckAll, cityDeckDrawn)
             bottom == BottomStriation(striations)
             pEpiDraw == IF cn \in bottom THEN RFrac(1, Cardinality(bottom))
                         ELSE IF cn \in SeqToSet(infectionDrawn)
                         THEN RFrac(InfectionRate, 1 + Len(infectionDrawn))
                         ELSE Zero
             pNoEpiDraw == ProbabilityOfDrawing(striations, infectionDrawn, cn,
                                                InfectionRate)
         IN RAdd(RMul(pEpi, pEpiDraw), RMul(RSub(One, pEpi), pNoEpiDraw))

\* CanOutbreak without the early return for an uninfected city
CanOutbreak_noLevelCheck(cn) ==
    IF GetCity(cn) # OK THEN FALSE
    ELSE IF RIsZero(ProbabilityOfCity(cn)) THEN FALSE
    ELSE NumInfections[cn] = 3 \/ cn \in BottomStriation(striations)

\* GameState.CanOutbreak in the current state
CanOutbreak(cn) ==
    IF GetCity(cn) # OK THEN FALSE
    ELSE IF NumInfections[cn] = 0 THEN FALSE
    ELSE IF RIsZero(ProbabilityOfCity(cn)) THEN FALSE
    ELSE NumInfections[cn] = 3 \/ cn \in BottomStriation(striations)

\* what a call returns and leaves behind: its error, the flag City.Infect
\* returned where the call reached it, and the session state after the call
Return(err, overflow, state) ==
    [err |-> err, overflow |-> overflow, state |-> state]

\* Infect that goes on after InfectionDeck.Draw returned an error
Infect_ignoringDrawError(cn) ==
    LET d == InfectionDeck_Draw(striations, infectionDrawn, cn)
        drawn == [Current EXCEPT !.striations = d.striations,
                                 !.infectionDrawn = <<cn>> \o infectionDrawn]
    IN IF GetCity(cn) # OK THEN Return(GetCity(cn), FALSE, Current)
       ELSE IF Quarantined[cn]
       THEN Return(OK, FALSE, [drawn EXCEPT !.Quarantined[cn] = FALSE])
       ELSE Return(OK, City_Infect(NumInfections[cn]).overflow,
                   [drawn EXCEPT !.NumInfections[cn] = City_Infect(@).level])

\* Infect without the branch for a quarantined city
Infect_notAbsorbed(cn) ==
    LET d == InfectionDeck_Draw(striations, infectionDrawn, cn)
        drawn == [Current EXCEPT !.striations = d.striations,
                                 !.infectionDrawn = d.drawn]
    IN IF d.err # OK THEN Return(d.err, FALSE, Current)
       ELSE IF GetCity(cn) # OK THEN Return(GetCity(cn), FALSE, drawn)
       ELSE Return(OK, City_Infect(NumInfections[cn]).overflow,
                   [drawn EXCEPT !.NumInfections[cn] = City_Infect(@).level])

\* GameState.Infect
Infect(cn) ==
    LET d == InfectionDeck_Draw(striations, infectionDrawn, cn)
        drawn == [Current EXCEPT !.striations = d.striations,
                                 !.infectionDrawn = d.drawn]
    IN IF d.err # OK THEN Return(d.err, FALSE, Current)
       ELSE IF GetCity(cn) # OK THEN Return(GetCity(cn), FALSE, drawn)
       ELSE IF Quarantined[cn]
       THEN Return(OK, FALSE, [drawn EXCEPT !.Quarantined[cn] = FALSE])
       ELSE Return(OK, City_Infect(NumInfections[cn]).overflow,
                   [drawn EXCEPT !.NumInfections[cn] = City_Infect(@).level])

\* Epidemic that escalates the city before it looks at the quarantine
Epidemic_alwaysEscalating(cn) ==
    LET p == InfectionDeck_PullFromBottom(infectionDrawn, cn)
        pulled == [Current EXCEPT !.infectionDrawn = p.drawn]
        e == CityDeck_DrawEpidemic(cityDeckAll, cityDeckDrawn)
        marked == [pulled EXCEPT !.cityDeckDrawn = e.drawn,
                                 !.NumInfections[cn] = City_Epidemic(@)]
        s == InfectionDeck_ShuffleDrawn(striations, p.drawn)
    IN IF p.err # OK THEN Return(p.err, FALSE, Current)
       ELSE IF e.err # OK THEN Return(e.err, FALSE, pulled)
       ELSE IF Quarantined[cn]
       THEN Return(OK, FALSE, [marked EXCEPT !.Quarantined[cn] = FALSE])
       ELSE Return(OK, FALSE,
                   [marked EXCEPT !.striations = s.striations,
                                  !.infectionDrawn = s.drawn])

\* Epidemic that returns for a quarantined city without lifting the quarantine
Epidemic_keepingQuarantine(cn) ==
    LET p == InfectionDeck_PullFromBottom(infectionDrawn, cn)
        pulled == [Current EXCEPT !.infectionDrawn = p.drawn]
        e == CityDeck_DrawEpidemic(cityDeckAll, cityDeckDrawn)
        marked == [pulled EXCEPT !.cityDeckDrawn = e.drawn]
        s == InfectionDeck_ShuffleDrawn(striations, p.drawn)
    IN IF p.err # OK THEN Return(p.err, FALSE, Current)
       ELSE IF e.err # OK THEN Return(e.err, FALSE, pulled)
       ELSE IF Quarantined[cn]
       THEN Return(OK, FALSE, marked)
       ELSE Return(OK, FALSE,
                   [marked EXCEPT !.NumInfections[cn] = City_Epidemic(@),
                                  !.striations = s.striations,
                                  !.infectionDrawn = s.drawn])

\* Epidemic that restacks the drawn pile without the entry it pulled
Epidemic_droppingPulled(cn) ==
    LET p == InfectionDeck_PullFromBottom(infectionDrawn, cn)
        pulled == [Current EXCEPT !.infectionDrawn = p.drawn]
        e == CityDeck_DrawEpidemic(cityDeckAll, cityDeckDrawn)
        marked == [pulled EXCEPT !.cityDeckDrawn = e.drawn]
        s == InfectionDeck_ShuffleDrawn(striations, Tail(p.drawn))
    IN IF p.err # OK THEN Return(p.err, FALSE, Current)
       ELSE IF e.err # OK THEN Return(e.err, FALSE, pulled)
       ELSE IF Quarantined[cn]
       THEN Return(OK, FALSE, [marked EXCEPT !.Quarantined[cn] = FALSE])
       ELSE Return(OK, FALSE,
                   [marked EXCEPT !.NumInfections[cn] = City_Epidemic(@),
                                  !.striations = s.striations,
                                  !.infectionDrawn = s.drawn])

\* GameState.Epidemic
Epidemic(cn) ==
    LET p == InfectionDeck_PullFromBottom(infectionDrawn, cn)
        pulled == [Current EXCEPT !.infectionDrawn = p.drawn]
        e == CityDeck_DrawEpidemic(cityDeckAll, cityDeckDrawn)
        marked == [pulled EXCEPT !.cityDeckDrawn = e.drawn]
        s == InfectionDeck_ShuffleDrawn(striations, p.drawn)
    IN IF p.err # OK THEN Return(p.err, FALSE, Current)
       ELSE IF e.err # OK THEN Return(e.err, FALSE, pulled)
       ELSE IF Quarantined[cn]
       THEN Return(OK, FALSE, [marked EXCEPT !.Quarantined[cn] = FALSE])
       ELSE Return(OK, FALSE,
                   [marked EXCEPT !.NumInfections[cn] = City_Epidemic(@),
                                  !.striations = s.striations,
                                  !.infectionDrawn = s.drawn])

\* Quarantine without the test for a city that is already quarantined
Quarantine_unchecked(cn) ==
    IF GetCity(cn) # OK THEN Return(GetCity(cn), FALSE, Current)
    ELSE Return(OK, FALSE, [Current EXCEPT !.Quarantined[cn] = TRUE])

\* GameState.Quarantine
Quarantine(cn) ==
    IF GetCity(cn) # OK THEN Return(GetCity(cn), FALSE, Current)
    ELSE IF Quarantined[cn] THEN Return(AlreadySet, FALSE, Current)
    ELSE Return(OK, FALSE, [Current EXCEPT !.Quarantined[cn] = TRUE])

\* GameState.RemoveQuarantine
RemoveQuarantine(cn) ==
    IF GetCity(cn) # OK THEN Return(GetCity(cn), FALSE, Current)
    ELSE IF ~Quarantined[cn] THEN Return(NotSet, FALSE, Current)
    ELSE Return(OK, FALSE, [Current EXCEPT !.Quarantined[cn] = FALSE])

\* NewGame
NewGame ==
    LET deck == NewInfectionDeck(CityNames) IN
    /\ NumInfections = [c \in Cities |-> 0]
    /\ Quarantined = [c \in Cities |-> FALSE]
    /\ cityDeckAll = CityCards(EpidemicsPerGame)
    /\ cityDeckDrawn = <<>>
    /\ striations = deck.striations
    /\ infectionDrawn = deck.drawn
    /\ InfectionRate = InitialInfectionRate
    /\ prob = NoValue
    /\ queried = NoQuery
    /\ sortCall = NoSort

Init == NewGame

\* the session after a call that returned r
Apply(r) ==
    /\ NumInfections' = r.state.NumInfections
    /\ Quarantined' = r.state.Quarantined
    /\ cityDeckDrawn' = r.state.cityDeckDrawn
    /\ striations' = r.state.striations
    /\ infectionDrawn' = r.state.infectionDrawn
    /\ UNCHANGED <<cityDeckAll, InfectionRate, prob, queried, sortCall>>

DoInfect == \E cn \in SessionNames : Apply(Infect(cn))
DoEpidemic == \E cn \in SessionNames : Apply(Epidemic(cn))
DoQuarantine == \E cn \in SessionNames : Apply(Quarantine(cn))
DoRemoveQuarantine == \E cn \in SessionNames : Apply(RemoveQuarantine(cn))

Next == DoInfect \/ DoEpidemic \/ DoQuarantine \/ DoRemoveQuarantine

Spec == Init /\ [][Next]_vars

\* ------------------------------------------------- the city deck alone
\* CityDeck.Draw called on the session's city deck
DeckDraw(cn) ==
    /\ cityDeckDrawn' = CityDeck_Draw(cityDeckAll, cityDeckDrawn, cn).drawn
    /\ UNCHANGED <<NumInfections, Quarantined, cityDeckAll, striations,
                   infectionDrawn, InfectionRate, prob, queried, sortCall>>

\* CityDeck.DrawEpidemic called on the session's city deck
DeckDrawEpidemic ==
    /\ cityDeckDrawn' = CityDeck_DrawEpidemic(cityDeckAll, cityDeckDrawn).drawn
    /\ UNCHANGED <<NumInfections, Quarantined, cityDeckAll, striations,
                   infectionDrawn, InfectionRate, prob, queried, sortCall>>

DoDeckDraw == \E cn \in Names : DeckDraw(cn)

NextDeck == DoDeckDraw \/ DeckDrawEpidemic

SpecDeck == Init /\ [][NextDeck]_vars

\* ------------------------------------- probabilityOfEpidemic as a function
\* a city deck of n city cards and k epidemic cards of which the first c city
\* cards and e epidemic cards have been drawn
InitPhase ==
    \E n \in PhaseCityCounts, k \in 1..MaxPhaseEpidemics,
       c \in 0..MaxPhaseDrawn, e \in 0..MaxPhaseEpidemics :
        /\ c <= n
        /\ e <= k
        /\ cityDeckAll = CityCardsOf(n, k)
        /\ cityDeckDrawn = [i \in 1..c |-> CityCard(i)] \o
                           [i \in 1..e |-> EpidemicCard]
        /\ NumInfections = [x \in Cities |-> 0]
        /\ Quarantined = [x \in Cities |-> FALSE]
        /\ striations = NewInfectionDeck(CityNames).striations
        /\ infectionDrawn = NewInfectionDeck(CityNames).drawn
        /\ InfectionRate = InitialInfectionRate
        /\ prob = NoValue
        /\ queried = NoQuery
        /\ sortCall = NoSort

ApplyProbabilityOfEpidemic ==
    /\ prob = NoValue
    /\ prob' = probabilityOfEpidemic(cityDeckAll, cityDeckDrawn)
    /\ UNCHANGED <<NumInfections, Quarantined, cityDeckAll, cityDeckDrawn,
                   striations, infectionDrawn, InfectionRate, queried, sortCall>>

NextPhase == ApplyProbabilityOfEpidemic

SpecPhase == InitPhase /\ [][NextPhase]_vars

\* --------------------------------------- the session with its two queries
\* GameState.ProbabilityOfCity as a call: it returns ProbabilityOfCity(cn) and
\* assigns nothing of the session
QueryProbabilityOfCity(cn) ==
    /\ queried' = "ProbabilityOfCity"
    /\ UNCHANGED <<NumInfections, Quarantined, cityDeckAll, cityDeckDrawn,
                   striations, infectionDrawn, InfectionRate, prob, sortCall>>

\* CanOutbreak whose BottomStriation drops the empty striations it skips
QueryCanOutbreak_pruning(cn) ==
    /\ queried' = "CanOutbreak"
    /\ striations' = IF Len(striations) > 1 /\ striations[1] = {}
                     THEN Tail(striations) ELSE striations
    /\ UNCHANGED <<NumInfections, Quarantined, cityDeckAll, cityDeckDrawn,
                   infectionDrawn, InfectionRate, prob, sortCall>>

\* GameState.CanOutbreak as a call: it returns CanOutbreak(cn) and assigns
\* nothing of the session
QueryCanOutbreak(cn) ==
    /\ queried' = "CanOutbreak"
    /\ UNCHANGED <<NumInfections, Quarantined, cityDeckAll, cityDeckDrawn,
                   striations, infectionDrawn, InfectionRate, prob, sortCall>>

DoProbabilityOfCity == \E cn \in Names : QueryProbabilityOfCity(cn)
DoCanOutbreak == \E cn \in Names : QueryCanOutbreak(cn)

NextQuery ==
    \/ DoInfect \/ DoEpidemic \/ DoQuarantine \/ DoRemoveQuarantine
    \/ DoProbabilityOfCity \/ DoCanOutbreak

SpecQuery == Init /\ [][NextQuery]_vars

\* ------------------------------------------- the session behind the view
Commands == {"infect", "i", "x"}
Unrecognized == "Unrecognized command"

\* PandemicView.runCommand with the buffer "cmd args": what it prints (OK for
\* the success message) and the session it leaves
runCommand(cmd, args) ==
    LET d == InfectionDeck_Draw(striations, infectionDrawn, args) IN
    IF cmd \in {"infect", "i"}
    THEN Return(d.err, FALSE, [Current EXCEPT !.striations = d.striations,
                                             !.infectionDrawn = d.drawn])
    ELSE Return(Unrecognized, FALSE, Current)

DoRunCommand ==
    \E cmd \in Commands, args \in SessionNames : Apply(runCommand(cmd, args))

NextView ==
    \/ DoInfect \/ DoEpidemic \/ DoQuarantine \/ DoRemoveQuarantine
    \/ DoRunCommand

SpecView == Init /\ [][NextView]_vars

\* ------------------------------------- SortByInfectionLevel as a function
\* the slices of catalog names of up to MaxSortLen entries
SortInputs == UNION {[1..k -> Cities] : k \in 0..MaxSortLen}

\* a registry with any infection levels and a slice of its names
InitSort ==
    /\ NumInfections \in [Cities -> 0..3]
    /\ Quarantined = [c \in Cities |-> FALSE]
    /\ cityDeckAll = CityCards(EpidemicsPerGame)
    /\ cityDeckDrawn = <<>>
    /\ striations = NewInfectionDeck(CityNames).striations
    /\ infectionDrawn = NewInfectionDeck(CityNames).drawn
    /\ InfectionRate = InitialInfectionRate
    /\ prob = NoValue
    /\ queried = NoQuery
    /\ \E names \in SortInputs :
           sortCall = [names |-> names, sorted |-> <<>>, done |-> FALSE]

ApplySortByInfectionLevel ==
    /\ ~sortCall.done
    /\ sortCall' = [names |-> sortCall.names,
                    sorted |-> SortByInfectionLevel(sortCall.names),
                    done |-> TRUE]
    /\ UNCHANGED <<NumInfections, Quarantined, cityDeckAll, cityDeckDrawn,
                   striations, infectionDrawn, InfectionRate, prob, queried>>

NextSort == ApplySortByInfectionLevel

SpecSort == InitSort /\ [][NextSort]_vars

\* ------------------------------------------------------------------ claims
Occurrences(seq, x) == Cardinality({i \in 1..Len(seq) : seq[i] = x})
StriationsWith(c) == {i \in 1..Len(striations) : c \in striations[i]}
RLt(a, b) == a[1] * b[2] < b[1] * a[2]
Markers(cards) == Cardinality({i \in 1..Len(cards) : cards[i].IsEpidemic})

\* the results of the four session operations called with cn in this state
SessionCalls(cn) ==
    {Infect(cn), Epidemic(cn), Quarantine(cn), RemoveQuarantine(cn)}

ShockRestack ==
    \A cn \in SessionNames :
        LET r == Epidemic(cn) IN
        r.err = OK =>
            /\ cn \in SeqToSet(infectionDrawn)
            /\ r.state.infectionDrawn = <<>>
            /\ r.state.striations = << SeqToSet(infectionDrawn) >> \o striations

\* C3: ProbabilityOfCity is a value in [0, 1] for every name in every
\* reachable state, and exactly 0 for a quarantined location.
ProbabilityBounds ==
    \A cn \in Names :
        LET p == ProbabilityOfCity(cn) IN
        /\ p[2] > 0
        /\ RLe(Zero, p)
        /\ RLe(p, One)
        /\ (cn \in Cities /\ Quarantined[cn]) => p[1] = 0

\* one card is left in the current epidemic phase (probabilityOfEpidemic is
\* 2/1), a location is alone in the drawn pile and another one is quarantined
ProbabilityBoundsWitness ==
    /\ probabilityOfEpidemic(cityDeckAll, cityDeckDrawn) = <<2, 1>>
    /\ Len(infectionDrawn) = 1
    /\ ~Quarantined[infectionDrawn[1]]
    /\ REq(ProbabilityOfCity(infectionDrawn[1]), One)
    /\ \E c \in Cities : Quarantined[c]

\* C4: a call that returns an error leaves the session state (both decks,
\* every infection level and quarantine flag) as it was before the call.
NoPartialMutation ==
    /\ \A cn \in SessionNames : \A r \in SessionCalls(cn) :
           r.err # OK => r.state = Current
    /\ \A cn \in Names :
           LET d == CityDeck_Draw(cityDeckAll, cityDeckDrawn, cn) IN
           d.err # OK => d.drawn = cityDeckDrawn
    /\ LET e == CityDeck_DrawEpidemic(cityDeckAll, cityDeckDrawn) IN
       e.err # OK => e.drawn = cityDeckDrawn

LocationCardsDistinct(drawn) ==
    \A i, j \in 1..Len(drawn) :
        (i # j /\ ~drawn[i].IsEpidemic /\ ~drawn[j].IsEpidemic)
            => drawn[i].Name # drawn[j].Name

\* C5: no location name is twice in the city deck's drawn list, and an Infect
\* of a location that is already drawn fails with DuplicateDraw and changes
\* nothing.
DrawUniqueness ==
    /\ LocationCardsDistinct(cityDeckDrawn)
    /\ \A c \in Cities : Occurrences(infectionDrawn, c) <= 1
    /\ \A cn \in SeqToSet(infectionDrawn) :
           /\ Infect(cn).err = DuplicateDraw
           /\ Infect(cn).state = Current

\* a location has been infected and a second Infect of it fails
DrawUniquenessWitness ==
    /\ infectionDrawn # <<>>
    /\ NumInfections[infectionDrawn[1]] > 0
    /\ Infect(infectionDrawn[1]).err = DuplicateDraw

IsCatalogCard(card) ==
    \/ card = EpidemicCard
    \/ (~card.IsEpidemic /\ card.Name \in Cities)

\* C6: in the city deck's drawn list every location is there at most once and
\* every entry is a card of the deck; Draw of a name outside the catalog fails
\* with NotFound and appends nothing; a successful call appends exactly one
\* entry and a failing call none.
DrawEventDeckInvariant ==
    /\ LocationCardsDistinct(cityDeckDrawn)
    /\ \A i \in 1..Len(cityDeckDrawn) : IsCatalogCard(cityDeckDrawn[i])
    /\ \A cn \in Names \ Cities :
           LET d == CityDeck_Draw(cityDeckAll, cityDeckDrawn, cn) IN
           d.err = NotFound /\ d.drawn = cityDeckDrawn
    /\ \A d \in {CityDeck_Draw(cityDeckAll, cityDeckDrawn, cn) : cn \in Names}
             \cup {CityDeck_DrawEpidemic(cityDeckAll, cityDeckDrawn)} :
           /\ d.err = OK =>
                 (/\ Len(d.drawn) = Len(cityDeckDrawn) + 1
                  /\ SubSeq(d.drawn, 1, Len(cityDeckDrawn)) = cityDeckDrawn)
           /\ d.err # OK => d.drawn = cityDeckDrawn

\* C7: DrawEpidemic fails with Exhausted exactly when as many epidemics are
\* drawn as the deck holds and otherwise appends one epidemic card; never more
\* epidemics are drawn than the deck holds; Epidemic fails once all are drawn.
ShockMarkerExhaustion ==
    LET e == CityDeck_DrawEpidemic(cityDeckAll, cityDeckDrawn)
        all == EpidemicsDrawn(cityDeckDrawn) = NumEpidemics(cityDeckAll)
    IN /\ EpidemicsDrawn(cityDeckDrawn) <= NumEpidemics(cityDeckAll)
       /\ e.err = Exhausted <=> all
       /\ ~all => (e.err = OK /\ e.drawn = Append(cityDeckDrawn, EpidemicCard))
       /\ all => \A cn \in SessionNames : Epidemic(cn).err # OK
       /\ \A cn \in SeqToSet(infectionDrawn) :
              Epidemic(cn).err = (IF all THEN Exhausted ELSE OK)

\* every epidemic card is drawn and an Epidemic of a drawn location fails
ShockMarkerExhaustionWitness ==
    /\ EpidemicsDrawn(cityDeckDrawn) = EpidemicsPerGame
    /\ infectionDrawn # <<>>
    /\ Epidemic(infectionDrawn[1]).err = Exhausted

\* C8: with cardsPerShockPhase = total / markers (integer division) and
\* phase = floor(drawn / cardsPerShockPhase), probabilityOfEpidemic is
\* 2 / (cardsPerShockPhase - drawn mod cardsPerShockPhase) when phase equals
\* the number of markers drawn and 0 otherwise; 96 entries, 6 markers, 5 draws
\* and no marker drawn give 2/11.
PhaseProbability ==
    prob # NoValue =>
        LET total == Len(cityDeckAll)
            cardsPerShockPhase == total \div Markers(cityDeckAll)
            drawnCount == Len(cityDeckDrawn)
            phase == CHOOSE q \in 0..drawnCount :
                         /\ q * cardsPerShockPhase <= drawnCount
                         /\ drawnCount < (q + 1) * cardsPerShockPhase
            left == cardsPerShockPhase - (drawnCount % cardsPerShockPhase)
        IN /\ phase = Markers(cityDeckDrawn) => prob = <<2, left>>
           /\ phase # Markers(cityDeckDrawn) => prob[1] = 0 /\ prob[2] > 0
           /\ (total = 96 /\ Markers(cityDeckAll) = 6 /\ drawnCount = 5 /\
               Markers(cityDeckDrawn) = 0) => prob = <<2, 11>>

\* the 96-entry example has been computed
PhaseProbabilityWitness ==
    /\ Len(cityDeckAll) = 96
    /\ Markers(cityDeckAll) = 6
    /\ Len(cityDeckDrawn) = 5
    /\ Markers(cityDeckDrawn) = 0
    /\ prob = <<2, 11>>

\* C9: CanOutbreak(name) is true exactly when the location is known, its
\* infection level is above 0, ProbabilityOfCity(name) is above 0 and the level
\* is 3 or the location is in the bottom striation; it is false for a
\* quarantined and for an unknown location.
OutbreakEligibility ==
    \A cn \in Names :
        /\ CanOutbreak(cn) <=>
              /\ cn \in Cities
              /\ NumInfections[cn] > 0
              /\ RLt(Zero, ProbabilityOfCity(cn))
              /\ (NumInfections[cn] = 3 \/ cn \in BottomStriation(striations))
        /\ (cn \in Cities /\ NumInfections[cn] = 3
                /\ ~RIsZero(ProbabilityOfCity(cn))) => CanOutbreak(cn)
        /\ (cn \in Cities /\ Quarantined[cn]) => ~CanOutbreak(cn)
        /\ cn \notin Cities => ~CanOutbreak(cn)

\* one location can outbreak at a level below 3 because it is in the bottom
\* striation, and another at level 3 cannot because it is quarantined
OutbreakEligibilityWitness ==
    /\ \E c \in Cities : CanOutbreak(c) /\ NumInfections[c] < 3
    /\ \E c \in Cities : ~CanOutbreak(c) /\ NumInfections[c] = 3 /\ Quarantined[c]

\* C10: every infection level is in 0..3; an Infect of a location at level 3
\* leaves it at 3, and City.Infect, when the call reaches it, returns true
\* exactly at level 3 and increments the level by one below it.
InfectionLevelRange ==
    /\ \A c \in Cities : NumInfections[c] \in 0..3
    /\ \A cn \in Cities :
           LET r == Infect(cn) IN
           r.err = OK =>
               /\ r.state.NumInfections[cn] \in 0..3
               /\ NumInfections[cn] = 3 => r.state.NumInfections[cn] = 3
               /\ ~Quarantined[cn] =>
                      (/\ r.overflow <=> NumInfections[cn] = 3
                       /\ NumInfections[cn] < 3 =>
                              r.state.NumInfections[cn] = NumInfections[cn] + 1)

\* a location at level 3 is back in a striation and an Infect of it signals
\* the overflow and leaves the level at 3
InfectionLevelRangeWitness ==
    \E cn \in Cities :
        /\ NumInfections[cn] = 3
        /\ ~Quarantined[cn]
        /\ Infect(cn).err = OK
        /\ Infect(cn).overflow
        /\ Infect(cn).state.NumInfections[cn] = 3

\* C11: Quarantine fails with AlreadySet for a quarantined location and
\* RemoveQuarantine with NotSet for one that is not; both fail with NotFound
\* for an unknown name; a success flips exactly that location's flag and
\* nothing else, a failure changes nothing.
QuarantineToggle ==
    \A cn \in SessionNames :
        LET q == Quarantine(cn)
            u == RemoveQuarantine(cn)
        IN /\ cn \notin Cities => (q.err = NotFound /\ u.err = NotFound)
           /\ (cn \in Cities /\ Quarantined[cn]) =>
                  /\ q.err = AlreadySet
                  /\ u.err = OK
                  /\ u.state = [Current EXCEPT !.Quarantined[cn] = FALSE]
           /\ (cn \in Cities /\ ~Quarantined[cn]) =>
                  /\ u.err = NotSet
                  /\ q.err = OK
                  /\ q.state = [Current EXCEPT !.Quarantined[cn] = TRUE]
           /\ q.err # OK => q.state = Current
           /\ u.err # OK => u.state = Current

\* one location is quarantined (a second Quarantine of it fails) and another
\* one is not (a RemoveQuarantine of it fails)
QuarantineToggleWitness ==
    /\ \E c \in Cities : Quarantined[c] /\ Quarantine(c).err = AlreadySet
    /\ \E c \in Cities : ~Quarantined[c] /\ RemoveQuarantine(c).err = NotSet

\* C12: a successful Infect moves the name from its striation to the top of
\* the drawn pile; for a quarantined location it clears the flag and leaves
\* the level, otherwise it adds one to the level, capped at 3, and leaves the
\* flag false; no other location's level or flag changes.
InfectEffect ==
    \A cn \in SessionNames :
        LET r == Infect(cn) IN
        r.err = OK =>
            /\ cn \in Cities
            /\ InStriations(striations, cn)
            /\ r.state.infectionDrawn = <<cn>> \o infectionDrawn
            /\ Len(r.state.striations) = Len(striations)
            /\ \A i \in 1..Len(striations) :
                   r.state.striations[i] = striations[i] \ {cn}
            /\ r.state.cityDeckDrawn = cityDeckDrawn
            /\ ~r.state.Quarantined[cn]
            /\ Quarantined[cn] =>
                   r.state.NumInfections[cn] = NumInfections[cn]
            /\ ~Quarantined[cn] =>
                   r.state.NumInfections[cn] =
                       (IF NumInfections[cn] < 3 THEN NumInfections[cn] + 1 ELSE 3)
            /\ \A c \in Cities \ {cn} :
                   /\ r.state.NumInfections[c] = NumInfections[c]
                   /\ r.state.Quarantined[c] = Quarantined[c]

\* an infected location is quarantined and back in a striation, so that the
\* next Infect of it is absorbed
InfectEffectWitness ==
    \E cn \in Cities :
        /\ Quarantined[cn]
        /\ NumInfections[cn] > 0
        /\ Infect(cn).err = OK
        /\ Infect(cn).state.NumInfections[cn] = NumInfections[cn]

\* C13: a successful Epidemic appends exactly one epidemic card to the city
\* deck's drawn list and sets the location's level to 3 unless the location is
\* quarantined, in which case the level stays; no other location's level
\* changes.
EpidemicEffect ==
    \A cn \in SessionNames :
        LET r == Epidemic(cn) IN
        r.err = OK =>
            /\ cn \in Cities
            /\ r.state.cityDeckDrawn = Append(cityDeckDrawn, EpidemicCard)
            /\ ~Quarantined[cn] => r.state.NumInfections[cn] = 3
            /\ Quarantined[cn] => r.state.NumInfections[cn] = NumInfections[cn]
            /\ \A c \in Cities \ {cn} :
                   r.state.NumInfections[c] = NumInfections[c]

\* a drawn location below level 3 is quarantined while another drawn location
\* is not: an Epidemic of the first leaves its level, of the second sets it
EpidemicEffectWitness ==
    /\ \E cn \in Cities :
           /\ Quarantined[cn]
           /\ NumInfections[cn] < 3
           /\ Epidemic(cn).err = OK
    /\ \E cn \in Cities :
           /\ ~Quarantined[cn]
           /\ NumInfections[cn] < 3
           /\ Epidemic(cn).err = OK
           /\ Epidemic(cn).state.NumInfections[cn] = 3

\* the step restacks the drawn pile: the whole pile becomes a new striation at
\* index 1 above the old ones and one more epidemic card is drawn
Restacked ==
    /\ infectionDrawn' = <<>>
    /\ striations' = <<SeqToSet(infectionDrawn)>> \o striations
    /\ Markers(cityDeckDrawn') = Markers(cityDeckDrawn) + 1

NoEpidemicAfterLast ==
    (prob # NoValue /\ EpidemicsDrawn(cityDeckDrawn) = NumEpidemics(cityDeckAll))
        => RIsZero(prob)

\* C19: a successful Epidemic of a quarantined location clears its flag, and a
\* call of Infect, Epidemic, Quarantine or RemoveQuarantine with a name leaves
\* the flag of every other location as it is.
QuarantineFrame ==
    \A cn \in SessionNames :
        /\ (cn \in Cities /\ Quarantined[cn] /\ Epidemic(cn).err = OK) =>
               ~Epidemic(cn).state.Quarantined[cn]
        /\ \A r \in SessionCalls(cn) : \A c \in Cities \ {cn} :
               r.state.Quarantined[c] = Quarantined[c]

\* a quarantined location is in the drawn pile, with epidemic cards left, while
\* another location is quarantined too: an Epidemic of the first succeeds
QuarantineFrameWitness ==
    \E cn \in Cities : \E c \in Cities \ {cn} :
        /\ Quarantined[cn]
        /\ Quarantined[c]
        /\ Epidemic(cn).err = OK


\* the state of the session that the commands and queries read
Session ==
    <<NumInfections, Quarantined, cityDeckAll, cityDeckDrawn, striations,
      infectionDrawn, InfectionRate>>

SameEntries(s, t) ==
    /\ Len(s) = Len(t)
    /\ \A x \in Cities : Occurrences(s, x) = Occurrences(t, x)

\* C15: SortByInfectionLevel returns a permutation of the slice it is given,
\* ordered by infection level descending and, at equal levels, by name
\* ascending; every reordering of the slice gives the same result.
SortedByInfectionLevel ==
    sortCall.done =>
        LET in == sortCall.names
            out == sortCall.sorted
        IN /\ SameEntries(out, in)
           /\ \A i, j \in 1..Len(out) :
                  i < j =>
                      \/ NumInfections[out[i]] > NumInfections[out[j]]
                      \/ /\ NumInfections[out[i]] = NumInfections[out[j]]
                         /\ out[i] <= out[j]
           /\ \A t \in SortInputs :
                  SameEntries(t, in) => SortByInfectionLevel(t) = out

\* a slice was sorted in which a name stood before a smaller name of the same
\* level, so that the sort had to exchange them
SortedByInfectionLevelWitness ==
    /\ sortCall.done
    /\ sortCall.sorted # sortCall.names
    /\ \E i, j \in 1..Len(sortCall.names) :
           /\ i < j
           /\ sortCall.names[i] > sortCall.names[j]
           /\ NumInfections[sortCall.names[i]] = NumInfections[sortCall.names[j]]

\* C16: a successful infect command leaves the session as GameState.Infect
\* with the same name leaves it, and it succeeds or fails as Infect does.
CommandInfectAsInfect ==
    \A cmd \in {"infect", "i"}, cn \in SessionNames :
        /\ (runCommand(cmd, cn).err = OK) = (Infect(cn).err = OK)
        /\ runCommand(cmd, cn).err = OK =>
               runCommand(cmd, cn).state = Infect(cn).state


=============================================================================
